---- MODULE Spec2Model ----
(***************************************************************************)
(* Request execution pipeline of the Splitwise SDK: HttpClient.get/post,   *)
(* executeWithInterceptors (auth injection, error classification, retry),  *)
(* and RequestCache (TTL cache, in-flight deduplication, invalidation).    *)
(*                                                                         *)
(* Strings that the code inspects character by character (endpoints,      *)
(* cache keys, prefixes) are sequences of one-character strings.           *)
(***************************************************************************)
EXTENDS Integers, Sequences, FiniteSets, TLC

VARIABLES
    config,     \* RetryConfig.maxRetries and CacheConfig of this client instance
    now,        \* Date.now()
    cache,      \* RequestCache.cache    : key -> CacheEntry
    inflight,   \* RequestCache.inflight : key -> the call owning the pending promise
    calls,      \* one record per logical get/post call of the client
    sweepTimer, \* RequestCache.sweepTimer is set: the interval timer is running
    lastOp,     \* history: the RequestCache method called last at the present instant
    written,    \* history: key -> the last set on an enabled cache that no clear,
                \* dispose or matching invalidate has followed
    probe       \* history: the function applied last, its arguments and its results

vars == <<config, now, cache, inflight, calls, sweepTimer, lastOp, written, probe>>

----------------------------------------------------------------------------
(* Bounds of the model *)

NCalls == 3            \* logical calls issued on the client instance
MaxRetriesBound == 1   \* largest configured maxRetries in the client specification
MaxRetriesDeep == 3    \* largest configured maxRetries in the single-call specification
MaxNow == 300001       \* the clock stops advancing here
NDedupCalls == 2       \* callers in the deduplication specification
NWriteCalls == 2       \* calls in the specification of cache writes
MaxCacheNow == 2       \* the clock of the cache specification stops advancing here
MaxProbeAttempt == 3   \* largest attempt index handed to shouldRetry and computeDelay
RandomSteps == 3       \* Math.random() returns one of 0/RandomSteps .. (RandomSteps-1)/RandomSteps

Calls == 1..NCalls

----------------------------------------------------------------------------
(* Program constants *)

DefaultTtlMs == 300000
LongTtlMs == 86400000

\* status of an error that carries no status code (NetworkError, a raw exception)
NoStatus == 0

\* the statuses SplitwiseApiError.retryable lists
RetryableStatuses == {408, 429, 500, 502, 503, 504}

----------------------------------------------------------------------------
(* Strings *)

Str_get_expense == <<"/", "g", "e", "t", "_", "e", "x", "p", "e", "n", "s", "e">>
Str_get_expenses == Str_get_expense \o <<"s">>
Str_get_expense_1 == Str_get_expense \o <<"/", "1">>
Str_get_currencies == <<"/", "g", "e", "t", "_", "c", "u", "r", "r", "e", "n", "c", "i", "e", "s">>
Str_get_categories == <<"/", "g", "e", "t", "_", "c", "a", "t", "e", "g", "o", "r", "i", "e", "s">>
Str_create_expense == <<"/", "c", "r", "e", "a", "t", "e", "_", "e", "x", "p", "e", "n", "s", "e">>
Str_update_expense_1 == <<"/", "u", "p", "d", "a", "t", "e", "_", "e", "x", "p", "e", "n", "s", "e", "/", "1">>
Str_delete_expense_1 == <<"/", "d", "e", "l", "e", "t", "e", "_", "e", "x", "p", "e", "n", "s", "e", "/", "1">>
Str_undelete_expense_1 == <<"/", "u", "n">> \o Str_delete_expense_1
Str_get_group == <<"/", "g", "e", "t", "_", "g", "r", "o", "u", "p">>
Str_get_groups == Str_get_group \o <<"s">>
Str_get_group_123 == Str_get_group \o <<"/", "1", "2", "3">>
Str_get_user == <<"/", "g", "e", "t", "_", "u", "s", "e", "r">>
Str_get_user_42 == Str_get_user \o <<"/", "4", "2">>
Str_get_current_user ==
    <<"/", "g", "e", "t", "_", "c", "u", "r", "r", "e", "n", "t", "_", "u", "s", "e", "r">>
Str_update_user_42 ==
    <<"/", "u", "p", "d", "a", "t", "e", "_", "u", "s", "e", "r", "/", "4", "2">>
\* JSON.stringify({limit: 1})
Str_limit_1 == <<"{", "\"", "l", "i", "m", "i", "t", "\"", ":", "1", "}">>
Empty == <<>>

\* String.prototype.startsWith
StartsWith(s, p) == Len(p) <= Len(s) /\ SubSeq(s, 1, Len(p)) = p

\* String.prototype.indexOf(ch, from), 1-based; 0 when ch does not occur
IndexOf(s, ch, from) ==
    LET hits == {i \in from..Len(s) : s[i] = ch}
    IN  IF hits = {} THEN 0 ELSE CHOOSE i \in hits : \A j \in hits : i <= j

----------------------------------------------------------------------------
(* Request parameters and their JSON text *)

\* values a params object can hold; props is the list of <<key, value>> of an
\* object in insertion order
Undefined == [t |-> "undefined", n |-> 0, s |-> <<>>, props |-> <<>>]
Null == [t |-> "null", n |-> 0, s |-> <<>>, props |-> <<>>]
NaN == [t |-> "NaN", n |-> 0, s |-> <<>>, props |-> <<>>]
Num(n) == [t |-> "number", n |-> n, s |-> <<>>, props |-> <<>>]
Str(s) == [t |-> "string", n |-> 0, s |-> s, props |-> <<>>]
Obj(props) == [t |-> "object", n |-> 0, s |-> <<>>, props |-> props]

\* the property names of the model, in the code-unit order of Array.prototype.sort
ParamKeyOrder == <<"a", "x">>

HasKey(props, k) == \E i \in 1..Len(props) : props[i][1] = k
PropOf(props, k) == props[CHOOSE i \in 1..Len(props) : props[i][1] = k][2]

\* Object.keys(params).sort()
SortedKeys(props) == SelectSeq(ParamKeyOrder, LAMBDA k : HasKey(props, k))

DigitChars == <<"0", "1", "2", "3", "4", "5", "6", "7", "8", "9">>

RECURSIVE NumberToString(_)
\* Number.prototype.toString of a non-negative integer
NumberToString(n) ==
    IF n < 10 THEN <<DigitChars[n + 1]>>
    ELSE NumberToString(n \div 10) \o <<DigitChars[(n % 10) + 1]>>

\* JSON.stringify of a string without characters that need escaping
Quote(s) == <<"\"">> \o s \o <<"\"">>

RECURSIVE SerializeJSONProperty(_, _)
RECURSIVE SerializeJSONMembers(_, _, _, _)
\* JSON.stringify(value, propertyList): an array replacer is the list of the
\* property names that are written, for the object and for every object
\* nested in it; a non-finite number is written as null
SerializeJSONProperty(value, propertyList) ==
    CASE value.t = "number" -> NumberToString(value.n)
      [] value.t \in {"NaN", "null"} -> <<"n", "u", "l", "l">>
      [] value.t = "string" -> Quote(value.s)
      [] value.t = "object" ->
            <<"{">> \o SerializeJSONMembers(value.props, propertyList, 1, TRUE) \o <<"}">>

\* the members of an object, in the order of propertyList
SerializeJSONMembers(props, propertyList, i, first) ==
    IF i > Len(propertyList) THEN <<>>
    ELSE IF HasKey(props, propertyList[i])
         THEN (IF first THEN <<>> ELSE <<",">>)
              \o Quote(<<propertyList[i]>>) \o <<":">>
              \o SerializeJSONProperty(PropOf(props, propertyList[i]), propertyList)
              \o SerializeJSONMembers(props, propertyList, i + 1, FALSE)
         ELSE SerializeJSONMembers(props, propertyList, i + 1, first)

\* paramStr of RequestCache.buildKey
ParamStr(params) ==
    IF params.t = "undefined" THEN Empty
    ELSE SerializeJSONProperty(params, SortedKeys(params.props))

----------------------------------------------------------------------------
(* Cache configuration and RequestCache *)

\* DEFAULT_CACHE_CONFIG.ttlOverrides, in insertion order
DefaultTtlOverrides ==
    << [prefix |-> Str_get_currencies, ttl |-> LongTtlMs],
       [prefix |-> Str_get_categories, ttl |-> LongTtlMs] >>

\* RequestCache.tokenFingerprint: 16 hex digits of a SHA-256 digest, written
\* here with two digits per token of the model
tokenFingerprint(token) ==
    IF token = "tokA" THEN <<"a", "1">> ELSE <<"b", "2">>

\* mutant of buildKey: the fingerprint is left out of the key
buildKeyUnscoped(endpoint, paramStr, fingerprint) ==
    <<":">> \o endpoint \o <<":">> \o paramStr

\* RequestCache.buildKey; paramStr is JSON.stringify(params, sorted keys), "" without params
buildKey(endpoint, paramStr, fingerprint) ==
    fingerprint \o <<":">> \o endpoint \o <<":">> \o paramStr

\* RequestCache.getTtl: the first override, in insertion order, whose prefix matches
getTtl(cfg, endpoint) ==
    LET ov == cfg.ttlOverrides
        hits == {i \in 1..Len(ov) : StartsWith(endpoint, ov[i].prefix)}
    IN  IF hits = {} THEN cfg.defaultTtlMs
        ELSE ov[CHOOSE i \in hits : \A j \in hits : i <= j].ttl

MapRemove(m, ks) == [k \in DOMAIN m \ ks |-> m[k]]
MapPut(m, key, v) == [k \in DOMAIN m \cup {key} |-> IF k = key THEN v ELSE m[k]]

\* mutant of CacheGetValue: the expiry time is not looked at
CacheGetValueNoExpiry(cfg, c, key, t) ==
    IF ~cfg.enabled THEN "undefined"
    ELSE IF key \notin DOMAIN c THEN "undefined"
    ELSE c[key].value

\* the result of RequestCache.get: the entry's value, or "undefined"
CacheGetValue(cfg, c, key, t) ==
    IF ~cfg.enabled THEN "undefined"
    ELSE IF key \notin DOMAIN c THEN "undefined"
    ELSE IF t > c[key].expiresAt THEN "undefined"
    ELSE c[key].value

\* the entry map after RequestCache.get: an expired entry is deleted by the read
CacheAfterGet(cfg, c, key, t) ==
    IF cfg.enabled /\ key \in DOMAIN c /\ t > c[key].expiresAt
    THEN MapRemove(c, {key})
    ELSE c

\* mutant of CacheSet: the entry expires at the time of the set
CacheSetNoTtl(cfg, c, key, value, endpoint, t) ==
    IF ~cfg.enabled THEN c
    ELSE MapPut(c, key, [value |-> value, expiresAt |-> t, old |-> {}, endpoint |-> endpoint])

\* mutant of CacheSet: the entry is stored whether the cache is enabled or not
CacheSetAlways(cfg, c, key, value, endpoint, t) ==
    MapPut(c, key, [value |-> value, expiresAt |-> t + getTtl(cfg, endpoint),
                    old |-> {}, endpoint |-> endpoint])

\* RequestCache.set.  The fields old and endpoint are history, which no
\* operation reads: the expense mutations (their calls) that succeeded while
\* the entry was stored, and the endpoint the entry was stored for.
CacheSet(cfg, c, key, value, endpoint, t) ==
    IF ~cfg.enabled THEN c
    ELSE MapPut(c, key, [value |-> value, expiresAt |-> t + getTtl(cfg, endpoint),
                         old |-> {}, endpoint |-> endpoint])

\* mutant of CacheSweep: an entry is removed in the millisecond it expires at
CacheSweepInclusive(c, t) == MapRemove(c, {key \in DOMAIN c : t >= c[key].expiresAt})

\* RequestCache.sweep
CacheSweep(c, t) == MapRemove(c, {key \in DOMAIN c : t > c[key].expiresAt})

\* the endpoint component RequestCache.invalidate cuts out of a key
EndpointPart(key) ==
    LET firstColon == IndexOf(key, ":", 1)
        secondColon == IndexOf(key, ":", firstColon + 1)
    IN  SubSeq(key, firstColon + 1, IF secondColon = 0 THEN Len(key) ELSE secondColon - 1)

\* mutant of invalidate: every entry is removed
invalidateAll(c, resourcePrefix) == MapRemove(c, DOMAIN c)

\* mutant of invalidate: a plain string prefix test on the endpoint component
invalidatePlainPrefix(c, resourcePrefix) ==
    MapRemove(c, {key \in DOMAIN c : StartsWith(EndpointPart(key), resourcePrefix)})

\* RequestCache.invalidate
invalidate(c, resourcePrefix) ==
    MapRemove(c, {key \in DOMAIN c :
                    \/ EndpointPart(key) = resourcePrefix
                    \/ StartsWith(EndpointPart(key), resourcePrefix \o <<"/">>)})

\* Array.prototype.join(","): the string an array of strings becomes when
\* the operator + concatenates it with a string
Join(items) ==
    IF Len(items) = 0 THEN Empty
    ELSE LET rest[i \in 1..Len(items)] ==
                 IF i = Len(items) THEN items[i] ELSE items[i] \o <<",">> \o rest[i + 1]
         IN  rest[1]

\* RequestCache.invalidate when the value handed to it is an array of strings:
\* endpointPart === resourcePrefix is false for a string and an array, and
\* resourcePrefix + "/" is the joined array followed by "/"
invalidateArray(c, resourcePrefixes) ==
    MapRemove(c, {key \in DOMAIN c :
                    StartsWith(EndpointPart(key), Join(resourcePrefixes) \o <<"/">>)})

----------------------------------------------------------------------------
(* Errors *)

\* The field attempt stands for the identity of the error object: it is the
\* attempt during which the object was constructed.
NoError == [name |-> "none", status |-> NoStatus, attempt |-> 0]

\* parseHttpError
parseHttpError(status, attempt) ==
    [name |-> CASE status = 401 -> "AuthenticationError"
                [] status = 403 -> "AuthorizationError"
                [] status = 404 -> "NotFoundError"
                [] status \in {400, 422} -> "ValidationError"
                [] status = 409 -> "ConflictError"
                [] status = 429 -> "RateLimitError"
                [] OTHER -> "SplitwiseApiError",
     status |-> status,
     attempt |-> attempt]

\* new NetworkError(...) in the catch block of executeWithInterceptors
NetworkError(attempt) == [name |-> "NetworkError", status |-> NoStatus, attempt |-> attempt]

\* mutant of EmptyTokenError: an empty token is reported like a failed fetch
EmptyTokenAsNetworkError(attempt) ==
    [name |-> "NetworkError", status |-> NoStatus, attempt |-> attempt]

\* the AuthenticationError resolveToken throws for an empty token
EmptyTokenError(attempt) == [name |-> "AuthenticationError", status |-> 401, attempt |-> attempt]

\* an exception of the token provider itself, which is no SplitwiseError
ProviderError(attempt) == [name |-> "Error", status |-> NoStatus, attempt |-> attempt]

\* mutant of retryable: of the API errors only the 5xx statuses are retryable
retryableServerErrorsOnly(error) ==
    CASE error.name = "NetworkError" -> TRUE
      [] error.name = "RateLimitError" -> TRUE
      [] OTHER -> error.status \in {500, 502, 503, 504}

\* the retryable getter of SplitwiseApiError, RateLimitError and NetworkError
retryable(error) ==
    CASE error.name = "NetworkError" -> TRUE
      [] error.name = "RateLimitError" -> TRUE
      [] OTHER -> error.status \in RetryableStatuses

\* mutant of shouldRetry: the attempt bound is off by one
shouldRetryOffByOne(error, attempt, maxRetries) ==
    IF attempt > maxRetries THEN FALSE ELSE retryable(error)

\* mutant of shouldRetry: the error's retryable verdict is ignored
shouldRetryAnyError(error, attempt, maxRetries) == attempt < maxRetries

\* mutant of shouldRetry: the attempt index is not looked at
shouldRetryIgnoresAttempt(error, attempt, maxRetries) == retryable(error)

\* shouldRetry
shouldRetry(error, attempt, maxRetries) ==
    IF attempt >= maxRetries THEN FALSE ELSE retryable(error)

\* DEFAULT_RETRY_CONFIG
DEFAULT_RETRY_CONFIG == [maxRetries |-> 3, baseDelayMs |-> 500, maxDelayMs |-> 30000]

\* the retryAfter property of an error: a number of seconds, or undefined
NoRetryAfter == [type |-> "undefined", seconds |-> 0]
RetryAfterSeconds(h) == [type |-> "number", seconds |-> h]

\* new RateLimitError(..., retryAfter)
RateLimitError(retryAfter) ==
    [name |-> "RateLimitError", status |-> 429, attempt |-> 0, retryAfter |-> retryAfter]

\* error.retryAfter, undefined for the error classes without the property
RetryAfterOf(error) ==
    IF "retryAfter" \in DOMAIN error THEN error.retryAfter ELSE NoRetryAfter

Min(a, b) == IF a <= b THEN a ELSE b

\* Math.round(random * capped) for random = rnd / steps, halves rounded up
RoundedShare(rnd, steps, capped) == (2 * rnd * capped + steps) \div (2 * steps)

Max(a, b) == IF a >= b THEN a ELSE b

\* Math.ceil(a / b) for an integer a and a positive integer b
CeilDiv(a, b) == IF a <= 0 THEN 0 - ((0 - a) \div b) ELSE (a + b - 1) \div b

\* The Retry-After header as response.headers.get returns it: null when the
\* header is missing, "" when it is empty, else a text, of which the model
\* has three kinds: digits only (n is the number), an HTTP-date (n is its
\* time in milliseconds), and a text that neither Number nor Date can parse.
MissingHeader == [kind |-> "missing", n |-> 0]
EmptyHeader == [kind |-> "empty", n |-> 0]
DigitsHeader(n) == [kind |-> "digits", n |-> n]
DateHeader(ms) == [kind |-> "date", n |-> ms]
OtherHeader == [kind |-> "other", n |-> 0]

\* mutant of parseRetryAfter: the difference to a date is not clamped at 0
parseRetryAfterNoClamp(header, t) ==
    IF header.kind \in {"missing", "empty"} THEN NoRetryAfter
    ELSE IF header.kind = "digits" /\ header.n >= 0 THEN RetryAfterSeconds(header.n)
    ELSE IF header.kind = "date" THEN RetryAfterSeconds(CeilDiv(header.n - t, 1000))
    ELSE NoRetryAfter

\* parseRetryAfter at Date.now() = t
parseRetryAfter(header, t) ==
    IF header.kind \in {"missing", "empty"} THEN NoRetryAfter
    ELSE IF header.kind = "digits" /\ header.n >= 0 THEN RetryAfterSeconds(header.n)
    ELSE IF header.kind = "date"
         THEN RetryAfterSeconds(Max(0, CeilDiv(header.n - t, 1000)))
    ELSE NoRetryAfter

\* new SplitwiseApiError(message, status, endpoint, requestId, details) and
\* the name its subclass constructor sets
ApiError(name, status, endpoint, requestId, details) ==
    [name |-> name, status |-> status, endpoint |-> endpoint, requestId |-> requestId,
     details |-> details]

\* new RateLimitError(endpoint, requestId, retryAfter, details)
RateLimitErrorOf(endpoint, requestId, retryAfter, details) ==
    [name |-> "RateLimitError", status |-> 429, endpoint |-> endpoint,
     requestId |-> requestId, details |-> details, retryAfter |-> retryAfter]

\* mutant of parseHttpErrorOf: 422 is not a case of the switch
parseHttpErrorWithout422(status, endpoint, requestId, body, retryAfterHeader, t) ==
    CASE status = 401 -> ApiError("AuthenticationError", 401, endpoint, requestId, body)
      [] status = 403 -> ApiError("AuthorizationError", 403, endpoint, requestId, body)
      [] status = 404 -> ApiError("NotFoundError", 404, endpoint, requestId, body)
      [] status = 400 -> ApiError("ValidationError", status, endpoint, requestId, body)
      [] status = 409 -> ApiError("ConflictError", 409, endpoint, requestId, body)
      [] status = 429 ->
            RateLimitErrorOf(endpoint, requestId, parseRetryAfter(retryAfterHeader, t), body)
      [] OTHER -> ApiError("SplitwiseApiError", status, endpoint, requestId, body)

\* parseHttpError with all its arguments, at Date.now() = t
parseHttpErrorOf(status, endpoint, requestId, body, retryAfterHeader, t) ==
    CASE status = 401 -> ApiError("AuthenticationError", 401, endpoint, requestId, body)
      [] status = 403 -> ApiError("AuthorizationError", 403, endpoint, requestId, body)
      [] status = 404 -> ApiError("NotFoundError", 404, endpoint, requestId, body)
      [] status \in {400, 422} ->
            ApiError("ValidationError", status, endpoint, requestId, body)
      [] status = 409 -> ApiError("ConflictError", 409, endpoint, requestId, body)
      [] status = 429 ->
            RateLimitErrorOf(endpoint, requestId, parseRetryAfter(retryAfterHeader, t), body)
      [] OTHER -> ApiError("SplitwiseApiError", status, endpoint, requestId, body)

\* mutant of computeDelay: the exponential delay is not capped
computeDelayUncapped(error, attempt, retry, rnd, steps) ==
    IF RetryAfterOf(error).type = "number"
    THEN Min(RetryAfterOf(error).seconds * 1000, retry.maxDelayMs)
    ELSE RoundedShare(rnd, steps, retry.baseDelayMs * 2^attempt)

\* mutant of computeDelay: the hint of the error is ignored
computeDelayIgnoresHint(error, attempt, retry, rnd, steps) ==
    RoundedShare(rnd, steps, Min(retry.baseDelayMs * 2^attempt, retry.maxDelayMs))

\* computeDelay; Math.random() returns rnd / steps, a value of [0, 1)
computeDelay(error, attempt, retry, rnd, steps) ==
    IF RetryAfterOf(error).type = "number"
    THEN Min(RetryAfterOf(error).seconds * 1000, retry.maxDelayMs)
    ELSE RoundedShare(rnd, steps, Min(retry.baseDelayMs * 2^attempt, retry.maxDelayMs))

----------------------------------------------------------------------------
(* Responses of the transport *)

JsonResponse(status, body) ==
    [status |-> status, contentLength |-> "n", contentType |-> "application/json", body |-> body]

NoContentResponse == [status |-> 204, contentLength |-> "0", contentType |-> "", body |-> ""]

\* no response was obtained
NoResponse == [status |-> NoStatus, contentLength |-> "", contentType |-> "", body |-> ""]

\* response.ok
ResponseOk(r) == r.status >= 200 /\ r.status <= 299

\* mutant of ParseBody: every success is taken for an empty body
ParseBodyEmpty(r) == [threw |-> FALSE, value |-> "undefined"]

\* Decoding of a success body (interceptors.ts 77-99): threw is TRUE when
\* response.json() rejects, value is the parsed value otherwise.
ParseBody(r) ==
    IF r.status = 204 \/ r.contentLength = "0"
    THEN [threw |-> FALSE, value |-> "undefined"]
    ELSE IF r.contentType = "application/json"
    THEN IF r.body = "malformed"
         THEN [threw |-> TRUE, value |-> "undefined"]
         ELSE [threw |-> FALSE, value |-> r.body]
    ELSE IF r.body = ""
    THEN [threw |-> FALSE, value |-> "undefined"]
    ELSE [threw |-> FALSE, value |-> r.body]

----------------------------------------------------------------------------
(* Calls *)

NoResult == [state |-> "pending", value |-> "undefined", error |-> NoError]
Fulfilled(v) == [state |-> "fulfilled", value |-> v, error |-> NoError]
Rejected(e) == [state |-> "rejected", value |-> "undefined", error |-> e]

\* A call record.  The fields of its last three lines are history, which no
\* operation reads:
\*   exchanges, sleeps, providerThrows  how often the call awaited performRequest,
\*       started a backoff sleep, and saw its token provider throw
\*   response        what the last attempt got from performRequest
\*   source          where the result came from: "cache", "network", "joined"
\*   hadEntry        the cache held an unexpired entry for the key at the lookup
\*   servedOld       the field old of the entry the call was answered from
\*   mutatedBefore   the expense mutations that had succeeded when the call began
\*   pendingAtDedup  the factories pending for the key when the call reached dedup
\*   joinedSettled   the promise the call found in the registry had settled
IdleCall ==
    [pc |-> "idle", method |-> "none", endpoint |-> Empty, paramStr |-> Empty,
     prefix |-> Empty, key |-> Empty, promise |-> 0, token |-> "",
     attempt |-> 0, lastError |-> NoError, result |-> NoResult,
     exchanges |-> 0, sleeps |-> 0, providerThrows |-> 0, response |-> NoResponse,
     source |-> "none", hadEntry |-> FALSE, servedOld |-> {}, mutatedBefore |-> {},
     pendingAtDedup |-> {}, joinedSettled |-> FALSE,
     emptyAt |-> -1, provided |-> "", resolutions |-> 0, authorization |-> <<>>,
     log |-> <<>>, overtakenBy |-> {}, prefixes |-> <<>>]

\* randomUUID() of executeWithInterceptors: one value per call, none twice
randomUUID(c) == c

\* the fields of a log event that tell the events of one call apart
LogEvent(message, c, rec) ==
    [message |-> message, requestId |-> randomUUID(c), retryCount |-> rec.attempt]

\* bearerHeader: the scheme with its blank, then the token
bearerHeader(token) == <<"Bearer ", token>>

\* mutant of AttemptToken: a retry sends the token of the attempt before it
AttemptTokenReused(rec, provided) == IF rec.attempt > 0 THEN rec.token ELSE provided

\* ctx.resolvedToken ?? (await resolveToken(ctx.tokenProvider)): the context
\* HttpClient builds has no resolvedToken, so the token is what the provider
\* yielded in this attempt
AttemptToken(rec, provided) == provided

\* the calls whose factory (its attempt loop) is pending for key k
PendingFactories(k) ==
    {c \in Calls : /\ calls[c].method = "GET"
                   /\ calls[c].pc \in {"resolve", "send", "sleep"}
                   /\ calls[c].key = k}

\* the POST endpoints of ExpensesRepository
ExpenseMutations ==
    {Str_create_expense, Str_update_expense_1, Str_delete_expense_1, Str_undelete_expense_1}

MarkOld(c, post) == [k \in DOMAIN c |-> [c[k] EXCEPT !.old = @ \cup {post}]]

\* the expense mutations that have succeeded
SucceededMutations ==
    {p \in Calls : /\ calls[p].method = "POST"
                   /\ calls[p].endpoint \in ExpenseMutations
                   /\ calls[p].result.state = "fulfilled"}

\* mutant of InflightAfterSettle: the finally callback is missing
InflightKept(key) == inflight

\* the finally callback of dedup (cache.ts 128-130)
InflightAfterSettle(key) == MapRemove(inflight, {key})

\* mutant of StoresResult: the factory stores whatever the attempt loop ended with
StoresAnyResult(res) == TRUE

\* the factory of HttpClient.get reaches cache.set only when the awaited
\* executeWithInterceptors returned a value (retry.ts 149-156)
StoresResult(res) == res.state = "fulfilled"

\* mutant of Awaits: the callers of a promise are found through the registry
AwaitsRegistered(d, c) ==
    /\ calls[d].pc = "joined"
    /\ calls[d].key \in DOMAIN inflight
    /\ inflight[calls[d].key] = c

\* call d awaits the promise that dedup returned to it, the one of call c
\* (cache.ts 125-126)
Awaits(d, c) == calls[d].pc = "joined" /\ calls[d].promise = c

\* history: the POST with record rec ends with res and invalidates the
\* endpoint of GET d while the request of d is out
Overtakes(rec, res, d) ==
    /\ res.state = "fulfilled"
    /\ rec.prefix # Empty
    /\ calls[d].method = "GET"
    /\ calls[d].pc = "send"
    /\ \/ calls[d].endpoint = rec.prefix
       \/ StartsWith(calls[d].endpoint, rec.prefix \o <<"/">>)

\* The end of one call whose attempt loop finished with res; rec is the
\* call's record at that point.
\*   post: cache.invalidate(invalidatePrefix) after a success (retry.ts 182-184)
\*   get : the factory stores a success (retry.ts 156); the finally callback of
\*         dedup deletes the key (cache.ts 128-130); the shared promise settles
\*         for the owner and for every caller that joined it
Finish(c, rec, res) ==
    LET done == [rec EXCEPT !.pc = "done", !.result = res]
    IN  IF rec.method = "POST"
        THEN /\ calls' = [d \in Calls |->
                            IF d = c THEN done
                            ELSE IF Overtakes(rec, res, d)
                            THEN [calls[d] EXCEPT !.overtakenBy = @ \cup {c}]
                            ELSE calls[d]]
             /\ cache' =
                  LET inv == IF res.state = "fulfilled" /\ rec.prefixes # <<>>
                             THEN invalidateArray(cache, rec.prefixes)
                             ELSE IF res.state = "fulfilled" /\ rec.prefix # Empty
                             THEN invalidate(cache, rec.prefix)
                             ELSE cache
                  IN  IF res.state = "fulfilled" /\ rec.endpoint \in ExpenseMutations
                      THEN MarkOld(inv, c)
                      ELSE inv
             /\ inflight' = inflight
        ELSE /\ calls' = [d \in Calls |->
                            IF d = c THEN done
                            ELSE IF Awaits(d, c)
                            THEN [calls[d] EXCEPT !.pc = "done", !.result = res]
                            ELSE calls[d]]
             /\ cache' = IF StoresResult(res)
                         THEN CacheSet(config, cache, rec.key, res.value, rec.endpoint, now)
                         ELSE cache
             /\ inflight' = InflightAfterSettle(rec.key)

\* mutant of ThrownError: the first error of the call is kept and thrown
ThrownFirst(rec, error) == IF rec.lastError = NoError THEN error ELSE rec.lastError

\* what an attempt that is not retried throws: throw error (interceptors.ts
\* 137, rethrown at 143) and throw networkError (170)
ThrownError(rec, error) == error

\* One failed attempt, after the error was classified and logged
\* (interceptors.ts 130-137 and 163-170).
AttemptFailed(c, rec, error) ==
    IF shouldRetry(error, rec.attempt, config.maxRetries)
    THEN /\ calls' = [calls EXCEPT ![c] = [rec EXCEPT !.pc = "sleep", !.lastError = error,
                                                      !.sleeps = @ + 1]]
         /\ UNCHANGED <<cache, inflight>>
    ELSE Finish(c, rec, Rejected(ThrownError(rec, error)))

----------------------------------------------------------------------------
(* Operations *)

EmptyMap == [k \in {} |-> 0]

\* calls are issued in the order of their numbers
InOrder(c) == IF c = 1 THEN TRUE ELSE calls[c - 1].pc # "idle"

\* HttpClient.get up to its first suspension, await resolveToken (retry.ts 130-131)
StartGet(c, endpoint, paramStr) ==
    /\ calls[c].pc = "idle"
    /\ InOrder(c)
    /\ calls' = [calls EXCEPT ![c] = [@ EXCEPT !.pc = "get_token", !.method = "GET",
                                               !.endpoint = endpoint, !.paramStr = paramStr,
                                               !.mutatedBefore = SucceededMutations]]
    /\ UNCHANGED <<probe, sweepTimer, lastOp, written, config, now, cache, inflight>>

\* resolveToken rejects in HttpClient.get because the provider itself throws:
\* the await is outside every try block, the exception leaves get as it is
GetTokenThrows(c) ==
    /\ calls[c].pc = "get_token"
    /\ calls' = [calls EXCEPT ![c] = [@ EXCEPT !.pc = "done",
                                               !.providerThrows = @ + 1,
                                               !.result = Rejected(ProviderError(0))]]
    /\ UNCHANGED <<probe, sweepTimer, lastOp, written, config, now, cache, inflight>>

\* RequestCache.dedup (cache.ts 124-134) for call c with record rec: join the
\* pending promise of the key, or call the factory, which runs
\* executeWithInterceptors up to its first await, and register its promise
dedup(c, rec, key, cacheAfter) ==
    LET seen == [rec EXCEPT !.key = key, !.pendingAtDedup = PendingFactories(key)]
    IN  IF key \in DOMAIN inflight
        THEN LET owner == inflight[key]
             IN  /\ calls' = [calls EXCEPT ![c] =
                       IF calls[owner].pc = "done"
                       THEN [seen EXCEPT !.pc = "done", !.promise = owner, !.source = "joined",
                                         !.joinedSettled = TRUE, !.result = calls[owner].result]
                       ELSE [seen EXCEPT !.pc = "joined", !.promise = owner, !.source = "joined"]]
                 /\ cache' = cacheAfter
                 /\ inflight' = inflight
        ELSE /\ calls' = [calls EXCEPT ![c] =
                   [seen EXCEPT !.pc = "resolve", !.promise = c, !.source = "network",
                                !.attempt = 0]]
             /\ cache' = cacheAfter
             /\ inflight' = MapPut(inflight, key, c)

\* HttpClient.get after its token resolved (retry.ts 131-158): an empty token
\* makes resolveToken throw AuthenticationError; otherwise cache lookup, and on
\* a miss dedup
GetToken(c, tok) ==
    /\ calls[c].pc = "get_token"
    /\ UNCHANGED <<probe, sweepTimer, lastOp, written, config, now>>
    /\ IF tok = ""
       THEN /\ calls' = [calls EXCEPT ![c] = [@ EXCEPT !.pc = "done", !.emptyAt = 0,
                                                      !.result = Rejected(EmptyTokenError(0))]]
            /\ UNCHANGED <<cache, inflight>>
       ELSE LET key == buildKey(calls[c].endpoint, calls[c].paramStr, tokenFingerprint(tok))
                cached == CacheGetValue(config, cache, key, now)
                after == CacheAfterGet(config, cache, key, now)
            IN  IF cached # "undefined"
                THEN /\ calls' = [calls EXCEPT ![c] =
                           [@ EXCEPT !.pc = "done", !.key = key, !.source = "cache",
                                     !.hadEntry = TRUE,
                                     !.servedOld = cache[key].old,
                                     !.result = Fulfilled(cached)]]
                     /\ cache' = after
                     /\ inflight' = inflight
                ELSE dedup(c, [calls[c] EXCEPT !.hadEntry =
                                  /\ config.enabled
                                  /\ key \in DOMAIN cache
                                  /\ now <= cache[key].expiresAt],
                           key, after)

\* HttpClient.post up to the first suspension of executeWithInterceptors
\* (retry.ts 164-169, interceptors.ts 37-47)
StartPost(c, endpoint, invalidatePrefix) ==
    /\ calls[c].pc = "idle"
    /\ InOrder(c)
    /\ calls' = [calls EXCEPT ![c] = [@ EXCEPT !.pc = "resolve", !.method = "POST",
                                               !.source = "network",
                                               !.endpoint = endpoint,
                                               !.prefix = invalidatePrefix,
                                               !.attempt = 0]]
    /\ UNCHANGED <<probe, sweepTimer, lastOp, written, config, now, cache, inflight>>

\* UsersRepository.updateUser(42, body) up to the first suspension of
\* executeWithInterceptors: post is called with the array
\* ["/get_user", "/get_current_user"] as its invalidatePrefix
updateUser(c) ==
    /\ calls[c].pc = "idle"
    /\ InOrder(c)
    /\ calls' = [calls EXCEPT ![c] = [@ EXCEPT !.pc = "resolve", !.method = "POST",
                                               !.source = "network",
                                               !.endpoint = Str_update_user_42,
                                               !.prefixes = <<Str_get_user,
                                                              Str_get_current_user>>,
                                               !.attempt = 0]]
    /\ UNCHANGED <<probe, sweepTimer, lastOp, written, config, now, cache, inflight>>

\* resolveToken of one attempt returns (interceptors.ts 46-62): an empty token
\* is an AuthenticationError, which the catch block rethrows; otherwise the
\* request is sent with the token in its Authorization header
ResolveToken(c, tok) ==
    /\ calls[c].pc = "resolve"
    /\ UNCHANGED <<probe, sweepTimer, lastOp, written, config, now>>
    /\ LET rec == [calls[c] EXCEPT !.provided = tok, !.resolutions = @ + 1]
       IN  IF tok = ""
           THEN Finish(c, [rec EXCEPT !.emptyAt = rec.attempt],
                       Rejected(EmptyTokenError(rec.attempt)))
           ELSE /\ calls' = [calls EXCEPT ![c] =
                      [rec EXCEPT !.pc = "send",
                                  !.token = AttemptToken(calls[c], tok),
                                  !.authorization = bearerHeader(AttemptToken(calls[c], tok)),
                                  !.overtakenBy = {},
                                  !.log = Append(@, LogEvent("request started", c, rec))]]
                /\ UNCHANGED <<cache, inflight>>

\* the provider throws during an attempt: the catch block wraps the exception
\* in a NetworkError (interceptors.ts 138-170)
ResolveTokenThrows(c) ==
    /\ calls[c].pc = "resolve"
    /\ UNCHANGED <<probe, sweepTimer, lastOp, written, config, now>>
    /\ AttemptFailed(c, [calls[c] EXCEPT !.providerThrows = @ + 1, !.response = NoResponse,
                                         !.resolutions = @ + 1,
                                         !.log = Append(@, LogEvent("request failed", c, calls[c]))],
                     NetworkError(calls[c].attempt))

\* performRequest returns response r (interceptors.ts 62-137)
Exchange(c, r) ==
    /\ calls[c].pc = "send"
    /\ UNCHANGED <<probe, sweepTimer, lastOp, written, config, now>>
    /\ LET rec == [calls[c] EXCEPT !.exchanges = @ + 1, !.response = r]
           succeeded == [rec EXCEPT !.log = Append(@, LogEvent("request succeeded", c, rec))]
           failed(at) == [at EXCEPT !.log = Append(@, LogEvent("request failed", c, rec))]
       IN  IF ResponseOk(r)
           THEN IF ParseBody(r).threw
                THEN AttemptFailed(c, failed(succeeded), NetworkError(rec.attempt))
                ELSE Finish(c, succeeded, Fulfilled(ParseBody(r).value))
           ELSE AttemptFailed(c, failed(rec), parseHttpError(r.status, rec.attempt))

\* performRequest rejects: no response was obtained (interceptors.ts 138-170)
FetchRejects(c) ==
    /\ calls[c].pc = "send"
    /\ UNCHANGED <<probe, sweepTimer, lastOp, written, config, now>>
    /\ AttemptFailed(c, [calls[c] EXCEPT !.exchanges = @ + 1, !.response = NoResponse,
                                         !.log = Append(@, LogEvent("request failed", c, calls[c]))],
                     NetworkError(calls[c].attempt))

\* the backoff sleep ends: continue, attempt++, and the loop condition
\* (interceptors.ts 42, 133-134, 166-167, 174-175)
Wake(c) ==
    /\ calls[c].pc = "sleep"
    /\ UNCHANGED <<probe, sweepTimer, lastOp, written, config, now>>
    /\ LET rec == [calls[c] EXCEPT !.attempt = @ + 1]
       IN  IF rec.attempt <= config.maxRetries
           THEN /\ calls' = [calls EXCEPT ![c] = [rec EXCEPT !.pc = "resolve"]]
                /\ UNCHANGED <<cache, inflight>>
           ELSE Finish(c, rec, Rejected(rec.lastError))

\* HttpClient.clearCache -> RequestCache.clear
ClearCache ==
    /\ cache' = EmptyMap
    /\ inflight' = EmptyMap
    /\ UNCHANGED <<probe, sweepTimer, lastOp, written, config, now, calls>>

\* time passes
Tick(d) ==
    /\ now + d <= MaxNow
    /\ now' = now + d
    /\ UNCHANGED <<probe, sweepTimer, lastOp, written, config, cache, inflight, calls>>

----------------------------------------------------------------------------
(* RequestCache called directly *)

NoProbe == [fn |-> "none"]

NoOp ==
    [op |-> "none", key |-> Empty, prefix |-> Empty, returned |-> "undefined", removed |-> {},
     inflightRemoved |-> {}, timerWas |-> FALSE, threw |-> "none"]

\* what the specification calls a matching invalidate: the endpoint an entry
\* was stored for is the prefix or lies under it
Under(endpoint, resourcePrefix) ==
    endpoint = resourcePrefix \/ StartsWith(endpoint, resourcePrefix \o <<"/">>)

\* cache.set(buildKey(endpoint, params, fingerprint), value, endpoint)
Set(endpoint, paramStr, fingerprint, value) ==
    LET key == buildKey(endpoint, paramStr, fingerprint)
    IN  /\ cache' = CacheSet(config, cache, key, value, endpoint, now)
        /\ lastOp' = [NoOp EXCEPT !.op = "set", !.key = key]
        /\ written' = IF config.enabled
                       THEN MapPut(written, key, [value |-> value, endpoint |-> endpoint,
                                                  at |-> now, ttl |-> getTtl(config, endpoint)])
                       ELSE written
        /\ UNCHANGED <<probe, config, now, inflight, calls, sweepTimer>>

\* cache.get(key)
Get(key) ==
    /\ cache' = CacheAfterGet(config, cache, key, now)
    /\ lastOp' = [NoOp EXCEPT !.op = "get", !.key = key,
                              !.returned = CacheGetValue(config, cache, key, now),
                              !.removed = DOMAIN cache \ DOMAIN cache']
    /\ UNCHANGED <<probe, config, now, inflight, calls, sweepTimer, written>>

\* cache.invalidate(resourcePrefix)
Invalidate(resourcePrefix) ==
    /\ cache' = invalidate(cache, resourcePrefix)
    /\ lastOp' = [NoOp EXCEPT !.op = "invalidate", !.prefix = resourcePrefix,
                              !.removed = DOMAIN cache \ DOMAIN cache']
    /\ written' = MapRemove(written, {k \in DOMAIN written :
                                         Under(written[k].endpoint, resourcePrefix)})
    /\ UNCHANGED <<probe, config, now, inflight, calls, sweepTimer>>

\* cache.clear()
Clear ==
    /\ cache' = EmptyMap
    /\ inflight' = EmptyMap
    /\ lastOp' = [NoOp EXCEPT !.op = "clear", !.removed = DOMAIN cache,
                              !.inflightRemoved = DOMAIN inflight]
    /\ written' = EmptyMap
    /\ UNCHANGED <<probe, config, now, calls, sweepTimer>>

\* the interval timer fires: sweep()
Sweep ==
    /\ sweepTimer
    /\ cache' = CacheSweep(cache, now)
    /\ lastOp' = [NoOp EXCEPT !.op = "sweep", !.removed = DOMAIN cache \ DOMAIN cache']
    /\ UNCHANGED <<probe, config, now, inflight, calls, sweepTimer, written>>

\* mutant of Dispose: the interval timer is left running
DisposeKeepsTimer ==
    /\ sweepTimer' = sweepTimer
    /\ cache' = EmptyMap
    /\ inflight' = EmptyMap
    /\ lastOp' = [NoOp EXCEPT !.op = "dispose", !.removed = DOMAIN cache,
                              !.inflightRemoved = DOMAIN inflight,
                              !.timerWas = sweepTimer]
    /\ written' = EmptyMap
    /\ UNCHANGED <<probe, config, now, calls>>

\* cache.dispose()
Dispose ==
    /\ sweepTimer' = FALSE
    /\ cache' = EmptyMap
    /\ inflight' = EmptyMap
    /\ lastOp' = [NoOp EXCEPT !.op = "dispose", !.removed = DOMAIN cache,
                              !.inflightRemoved = DOMAIN inflight,
                              !.timerWas = sweepTimer]
    /\ written' = EmptyMap
    /\ UNCHANGED <<probe, config, now, calls>>

\* cache.dedup(key, factory) with a factory whose promise is pending: the
\* promise is registered unless one is registered under the key already
Dedup(key) ==
    /\ inflight' = IF key \in DOMAIN inflight THEN inflight ELSE MapPut(inflight, key, 1)
    /\ lastOp' = [NoOp EXCEPT !.op = "dedup", !.key = key]
    /\ UNCHANGED <<probe, config, now, cache, calls, sweepTimer, written>>

\* a promise registered by dedup settles: its finally callback runs
Settle(key) ==
    /\ key \in DOMAIN inflight
    /\ inflight' = InflightAfterSettle(key)
    /\ lastOp' = [NoOp EXCEPT !.op = "settle", !.key = key]
    /\ UNCHANGED <<probe, config, now, cache, calls, sweepTimer, written>>

\* time passes on the clock of the cache specification
CacheTick ==
    /\ now < MaxCacheNow
    /\ now' = now + 1
    /\ lastOp' = NoOp
    /\ UNCHANGED <<probe, config, cache, inflight, calls, sweepTimer, written>>

CacheFingerprints == { <<"f", "p">> }

\* the requests whose results the cache specification stores
TtlRequests ==
    { [endpoint |-> Str_get_groups, paramStr |-> Empty],
      [endpoint |-> Str_get_currencies, paramStr |-> Empty] }

TtlKeys ==
    { buildKey(q.endpoint, q.paramStr, fp) : q \in TtlRequests, fp \in CacheFingerprints }

CacheValues == { "v1", "v2" }

CachePrefixes == { Str_get_group, Str_get_groups }

\* ttlOverrides with one prefix a prefix of the other, in both insertion orders
NestedOverrides ==
    << [prefix |-> Str_get_group, ttl |-> 1], [prefix |-> Str_get_groups, ttl |-> 2] >>

NestedOverridesLongestFirst ==
    << [prefix |-> Str_get_groups, ttl |-> 2], [prefix |-> Str_get_group, ttl |-> 1] >>

CacheConfigs ==
    [maxRetries : {0}, enabled : BOOLEAN, defaultTtlMs : {-1, 0, 2},
     ttlOverrides : {<<>>, NestedOverrides, NestedOverridesLongestFirst}]

InitCache ==
    /\ config \in CacheConfigs
    /\ now = 0
    /\ cache = EmptyMap
    /\ inflight = EmptyMap
    /\ calls = [c \in Calls |-> IdleCall]
    /\ sweepTimer = config.enabled
    /\ lastOp = NoOp
    /\ written = EmptyMap
    /\ probe = NoProbe

NextCache ==
    \/ \E q \in TtlRequests, fp \in CacheFingerprints, v \in CacheValues :
          Set(q.endpoint, q.paramStr, fp, v)
    \/ \E key \in TtlKeys : Get(key)
    \/ \E p \in CachePrefixes : Invalidate(p)
    \/ Clear
    \/ Sweep
    \/ Dispose
    \/ CacheTick

SpecCache == InitCache /\ [][NextCache]_vars

----------------------------------------------------------------------------
(* Sweep, clear and dispose: RequestCache with entries and pending promises *)

LifecycleConfigs ==
    [maxRetries : {0}, enabled : BOOLEAN, defaultTtlMs : {1}, ttlOverrides : {<<>>}]

InitLifecycle ==
    /\ config \in LifecycleConfigs
    /\ now = 0
    /\ cache = EmptyMap
    /\ inflight = EmptyMap
    /\ calls = [c \in Calls |-> IdleCall]
    /\ sweepTimer = config.enabled
    /\ lastOp = NoOp
    /\ written = EmptyMap
    /\ probe = NoProbe

NextLifecycle ==
    \/ \E q \in TtlRequests, fp \in CacheFingerprints : Set(q.endpoint, q.paramStr, fp, "v1")
    \/ \E key \in TtlKeys : Get(key)
    \/ \E key \in TtlKeys : Dedup(key)
    \/ \E key \in TtlKeys : Settle(key)
    \/ Clear
    \/ Sweep
    \/ Dispose
    \/ CacheTick

SpecLifecycle == InitLifecycle /\ [][NextLifecycle]_vars

----------------------------------------------------------------------------
(* Invalidation by resource prefix: RequestCache with the default configuration *)

CacheRequests ==
    { [endpoint |-> Str_get_group, paramStr |-> Empty],
      [endpoint |-> Str_get_group_123, paramStr |-> Empty],
      [endpoint |-> Str_get_group_123, paramStr |-> Str_limit_1],
      [endpoint |-> Str_get_groups, paramStr |-> Empty],
      [endpoint |-> Str_get_currencies, paramStr |-> Empty] }

CacheKeys ==
    { buildKey(q.endpoint, q.paramStr, fp) : q \in CacheRequests, fp \in CacheFingerprints }

InitInvalidate ==
    /\ config = [maxRetries |-> 0, enabled |-> TRUE, defaultTtlMs |-> DefaultTtlMs,
                 ttlOverrides |-> DefaultTtlOverrides]
    /\ now = 0
    /\ cache = EmptyMap
    /\ inflight = EmptyMap
    /\ calls = [c \in Calls |-> IdleCall]
    /\ sweepTimer = config.enabled
    /\ lastOp = NoOp
    /\ written = EmptyMap
    /\ probe = NoProbe

NextInvalidate ==
    \/ \E q \in CacheRequests, fp \in CacheFingerprints : Set(q.endpoint, q.paramStr, fp, "v1")
    \/ \E key \in CacheKeys : Get(key)
    \/ \E p \in CachePrefixes : Invalidate(p)
    \/ Clear

SpecInvalidate == InitInvalidate /\ [][NextInvalidate]_vars

----------------------------------------------------------------------------
(* Keys of two tokens: RequestCache with the default configuration *)

KeyFingerprints == { tokenFingerprint("tokA"), tokenFingerprint("tokB") }

KeyRequests ==
    { [endpoint |-> Str_get_groups, paramStr |-> Empty],
      [endpoint |-> Str_get_group_123, paramStr |-> Str_limit_1] }

KeyKeys ==
    { buildKey(q.endpoint, q.paramStr, fp) : q \in KeyRequests, fp \in KeyFingerprints }

\* what the API answers to the user of a token
UserData(fingerprint) == IF fingerprint = tokenFingerprint("tokA") THEN "alice" ELSE "bob"

NextKeys ==
    \/ \E q \in KeyRequests, fp \in KeyFingerprints :
          Set(q.endpoint, q.paramStr, fp, UserData(fp))
    \/ \E key \in KeyKeys : Get(key)
    \/ Clear

SpecKeys == InitInvalidate /\ [][NextKeys]_vars

----------------------------------------------------------------------------
(* Functions applied to enumerated arguments, one application in a behaviour *)

\* no function was applied yet
Fresh == probe.fn = "none"

ParamValues ==
    { Num(1), Num(2), NaN, Null, Str(<<"1">>),
      Obj(<< <<"x", Num(1)>> >>), Obj(<< <<"x", Num(2)>> >>) }

\* undefined, {} and the objects of one or two properties, in both insertion orders
ParamObjects ==
    {Undefined, Obj(<<>>)}
    \cup { Obj(<< <<k, v>> >>) : k \in {"a", "x"}, v \in ParamValues }
    \cup { Obj(<< <<k, v>>, <<l, w>> >>) :
              k \in {"a"}, l \in {"x"}, v \in ParamValues, w \in ParamValues }
    \cup { Obj(<< <<l, w>>, <<k, v>> >>) :
              k \in {"a"}, l \in {"x"}, v \in ParamValues, w \in ParamValues }

\* cache.buildKey(endpoint, params, fingerprint) for two params objects
ApplyBuildKey(first, second) ==
    /\ Fresh
    /\ probe' = [fn |-> "buildKey", first |-> first, second |-> second,
                 firstKey |-> buildKey(Str_get_groups, ParamStr(first), <<"f", "p">>),
                 secondKey |-> buildKey(Str_get_groups, ParamStr(second), <<"f", "p">>)]
    /\ UNCHANGED <<config, now, cache, inflight, calls, sweepTimer, lastOp, written>>

ErrorStatuses == {400, 401, 403, 404, 408, 409, 418, 422, 429, 500, 501, 502, 503, 504}

\* the errors the attempt loop hands to shouldRetry
ProbeErrors ==
    { parseHttpError(status, 0) : status \in ErrorStatuses } \cup { NetworkError(0) }

ProbeMaxRetries == -1..MaxRetriesDeep

\* shouldRetry(error, attempt, {maxRetries})
ApplyShouldRetry(error, attempt, maxRetries) ==
    /\ Fresh
    /\ probe' = [fn |-> "shouldRetry", error |-> error, attempt |-> attempt,
                 maxRetries |-> maxRetries,
                 returned |-> shouldRetry(error, attempt, maxRetries)]
    /\ UNCHANGED <<config, now, cache, inflight, calls, sweepTimer, lastOp, written>>

\* the Retry-After hints of the rate-limit errors, in seconds
HintSeconds == {0, 1, 2, 29, 30, 31, 120}

DelayErrors ==
    { RateLimitError(RetryAfterSeconds(h)) : h \in HintSeconds }
    \cup { RateLimitError(NoRetryAfter), NetworkError(0) }

RetryConfigs ==
    { DEFAULT_RETRY_CONFIG,
      [DEFAULT_RETRY_CONFIG EXCEPT !.maxDelayMs = 1000],
      [DEFAULT_RETRY_CONFIG EXCEPT !.baseDelayMs = 1],
      [DEFAULT_RETRY_CONFIG EXCEPT !.baseDelayMs = 0],
      [DEFAULT_RETRY_CONFIG EXCEPT !.maxDelayMs = 0] }

\* the attempt index and the value of Math.random() of one call of computeDelay
DelayCalls == [attempt : 0..MaxProbeAttempt, rnd : 0..(RandomSteps - 1)]

\* computeDelay(error, attempt, retry) called twice for the same error, each
\* call with its attempt index and its value of Math.random()
ApplyComputeDelay(error, retry, first, second) ==
    /\ Fresh
    /\ probe' = [fn |-> "computeDelay", error |-> error, retry |-> retry,
                 first |-> first, second |-> second,
                 firstDelay |->
                     computeDelay(error, first.attempt, retry, first.rnd, RandomSteps),
                 secondDelay |->
                     computeDelay(error, second.attempt, retry, second.rnd, RandomSteps)]
    /\ UNCHANGED <<config, now, cache, inflight, calls, sweepTimer, lastOp, written>>

\* statuses handed to parseHttpError: those of the switch, other error
\* statuses, and numbers that are no error status
ProbeStatuses == ErrorStatuses \cup {0, 200, 302, 599}

ProbeEndpoints == { Str_get_groups, Str_create_expense }

ProbeRequestIds == { "uuid-1", "uuid-2" }

ProbeBodies == { "undefined", "error-body" }

\* values of Date.now() in milliseconds
ProbeNows == { 0, 1500, 2000, 61000 }

RetryAfterHeaders ==
    { MissingHeader, EmptyHeader, OtherHeader }
    \cup { DigitsHeader(h) : h \in HintSeconds }
    \cup { DateHeader(ms) : ms \in {2000, 60000} }

\* parseHttpError(status, endpoint, requestId, body, retryAfterHeader)
ApplyParseHttpError(status, endpoint, requestId, body, header, t) ==
    /\ Fresh
    /\ probe' = [fn |-> "parseHttpError", status |-> status, endpoint |-> endpoint,
                 requestId |-> requestId, body |-> body, header |-> header, at |-> t,
                 returned |-> parseHttpErrorOf(status, endpoint, requestId, body, header, t)]
    /\ UNCHANGED <<config, now, cache, inflight, calls, sweepTimer, lastOp, written>>

\* parseRetryAfter(header), and computeDelay for the RateLimitError that
\* parseHttpError builds with its result
ApplyParseRetryAfter(header, t, call, retry) ==
    /\ Fresh
    /\ probe' = [fn |-> "parseRetryAfter", header |-> header, at |-> t,
                 call |-> call, retry |-> retry,
                 returned |-> parseRetryAfter(header, t),
                 delay |-> computeDelay(
                              parseHttpErrorOf(429, Str_get_groups, "uuid-1", "error-body",
                                               header, t),
                              call.attempt, retry, call.rnd, RandomSteps)]
    /\ UNCHANGED <<config, now, cache, inflight, calls, sweepTimer, lastOp, written>>

\* the statuses of responses that the attempt loop answers with a retry
RetriedStatuses == {408, 429, 500, 502, 503, 504}

\* One attempt that got a response with a status that is not ok and a
\* Retry-After header (interceptors.ts 102-135): the error parseHttpError
\* builds, the decision of shouldRetry and the time computeDelay has the
\* pipeline sleep
ApplyFailedResponse(status, header, t, call, retry) ==
    /\ Fresh
    /\ LET error == parseHttpErrorOf(status, Str_get_groups, "uuid-1", "error-body",
                                     header, t)
       IN  probe' = [fn |-> "failedResponse", status |-> status, header |-> header,
                     at |-> t, call |-> call, retry |-> retry, error |-> error,
                     retried |-> shouldRetry(error, call.attempt, retry.maxRetries),
                     delay |-> computeDelay(error, call.attempt, retry, call.rnd,
                                            RandomSteps)]
    /\ UNCHANGED <<config, now, cache, inflight, calls, sweepTimer, lastOp, written>>

NextFunctions ==
    \/ /\ Fresh
       /\ \E status \in RetriedStatuses, header \in RetryAfterHeaders, t \in ProbeNows,
               call \in DelayCalls, retry \in RetryConfigs :
             ApplyFailedResponse(status, header, t, call, retry)
    \/ /\ Fresh
       /\ \E status \in ProbeStatuses, endpoint \in ProbeEndpoints,
               requestId \in ProbeRequestIds, body \in ProbeBodies,
               header \in RetryAfterHeaders, t \in ProbeNows :
             ApplyParseHttpError(status, endpoint, requestId, body, header, t)
    \/ /\ Fresh
       /\ \E header \in RetryAfterHeaders, t \in ProbeNows,
               call \in DelayCalls, retry \in RetryConfigs :
             ApplyParseRetryAfter(header, t, call, retry)
    \/ /\ Fresh
       /\ \E first \in ParamObjects, second \in ParamObjects : ApplyBuildKey(first, second)
    \/ /\ Fresh
       /\ \E error \in ProbeErrors, attempt \in 0..MaxProbeAttempt,
               maxRetries \in ProbeMaxRetries :
             ApplyShouldRetry(error, attempt, maxRetries)
    \/ /\ Fresh
       /\ \E error \in DelayErrors, retry \in RetryConfigs,
               first \in DelayCalls, second \in DelayCalls :
             ApplyComputeDelay(error, retry, first, second)

SpecFunctions == InitInvalidate /\ [][NextFunctions]_vars

----------------------------------------------------------------------------
(* The client: several calls on one instance *)

Tokens == {"tokA"}

GetRequests ==
    { [endpoint |-> Str_get_expenses, paramStr |-> Empty],
      [endpoint |-> Str_get_expense_1, paramStr |-> Empty] }

PostRequests ==
    { [endpoint |-> Str_create_expense, prefix |-> Str_get_expense] }

ClientResponses ==
    { JsonResponse(200, "d1"), NoContentResponse, JsonResponse(500, "error") }

TickSteps == {DefaultTtlMs + 1}

Configs(maxMaxRetries) ==
    [maxRetries : 0..maxMaxRetries, enabled : BOOLEAN,
     defaultTtlMs : {DefaultTtlMs}, ttlOverrides : {DefaultTtlOverrides}]

Init ==
    /\ config \in Configs(MaxRetriesBound)
    /\ now = 0
    /\ cache = EmptyMap
    /\ inflight = EmptyMap
    /\ calls = [c \in Calls |-> IdleCall]
    /\ sweepTimer = config.enabled
    /\ lastOp = NoOp
    /\ written = EmptyMap
    /\ probe = NoProbe

Next ==
    \/ \E c \in Calls, q \in GetRequests : StartGet(c, q.endpoint, q.paramStr)
    \/ \E c \in Calls, tok \in Tokens : GetToken(c, tok)
    \/ \E c \in Calls, q \in PostRequests : StartPost(c, q.endpoint, q.prefix)
    \/ \E c \in Calls, tok \in Tokens : ResolveToken(c, tok)
    \/ \E c \in Calls, r \in ClientResponses : Exchange(c, r)
    \/ \E c \in Calls : Wake(c)
    \/ ClearCache
    \/ \E d \in TickSteps : Tick(d)

Spec == Init /\ [][Next]_vars

----------------------------------------------------------------------------
(* The deduplication registry: concurrent GET calls and clearCache *)

DedupCalls == 1..NDedupCalls

DedupRequests ==
    { [endpoint |-> Str_get_expenses, paramStr |-> Empty],
      [endpoint |-> Str_get_expense_1, paramStr |-> Empty] }

DedupResponses == { JsonResponse(200, "d1"), JsonResponse(500, "error") }

NextDedup ==
    \/ \E c \in DedupCalls, q \in DedupRequests : StartGet(c, q.endpoint, q.paramStr)
    \/ \E c \in DedupCalls, tok \in Tokens : GetToken(c, tok)
    \/ \E c \in DedupCalls, tok \in Tokens : ResolveToken(c, tok)
    \/ \E c \in DedupCalls, r \in DedupResponses : Exchange(c, r)
    \/ \E c \in DedupCalls : Wake(c)
    \/ ClearCache

SpecDedup == Init /\ [][NextDedup]_vars

----------------------------------------------------------------------------
(* clearCache during identical GET calls, with progress *)

ClearRequests == { [endpoint |-> Str_get_expenses, paramStr |-> Empty] }

NextClear ==
    \/ \E c \in DedupCalls, q \in ClearRequests : StartGet(c, q.endpoint, q.paramStr)
    \/ \E c \in DedupCalls, tok \in Tokens : GetToken(c, tok)
    \/ \E c \in DedupCalls, tok \in Tokens : ResolveToken(c, tok)
    \/ \E c \in DedupCalls, r \in DedupResponses : Exchange(c, r)
    \/ \E c \in DedupCalls : Wake(c)
    \/ ClearCache

\* The event loop runs every continuation that is ready, and the transport
\* settles every request: a resolved token is used, a sent request is
\* answered, a backoff timer fires.
SpecClearFair ==
    /\ Init
    /\ [][NextClear]_vars
    /\ \A c \in DedupCalls :
         /\ WF_vars(\E tok \in Tokens : ResolveToken(c, tok))
         /\ WF_vars(\E r \in DedupResponses : Exchange(c, r))
         /\ WF_vars(Wake(c))

----------------------------------------------------------------------------
(* The Splitwise facade: clearCache and dispose during GET calls *)

\* the methods of class HttpClient
HttpClientMethods == {"get", "post", "clearCache"}

\* Splitwise.clearCache(): this.http.clearCache()
SplitwiseClearCache == ClearCache

\* Splitwise.dispose(): this.http.dispose(). HttpClient has no member of that
\* name, the property read gives undefined and calling it throws a TypeError
\* before anything is stopped or cleared.
SplitwiseDispose ==
    /\ "dispose" \notin HttpClientMethods
    /\ lastOp' = [NoOp EXCEPT !.op = "Splitwise.dispose", !.threw = "TypeError"]
    /\ UNCHANGED <<probe, config, now, cache, inflight, calls, sweepTimer, written>>

NextSplitwise ==
    \/ \E c \in DedupCalls, q \in ClearRequests : StartGet(c, q.endpoint, q.paramStr)
    \/ \E c \in DedupCalls, tok \in Tokens : GetToken(c, tok)
    \/ \E c \in DedupCalls, tok \in Tokens : ResolveToken(c, tok)
    \/ \E c \in DedupCalls, r \in DedupResponses : Exchange(c, r)
    \/ \E c \in DedupCalls : Wake(c)
    \/ SplitwiseClearCache
    \/ SplitwiseDispose
    \/ Sweep
    \/ \E d \in TickSteps : Tick(d)

SpecSplitwise == Init /\ [][NextSplitwise]_vars

----------------------------------------------------------------------------
(* Cache writes: GET calls that store and POST calls that invalidate *)

WriteCalls == 1..NWriteCalls

WriteGetRequests ==
    { [endpoint |-> Str_get_expense_1, paramStr |-> Empty],
      [endpoint |-> Str_get_expenses, paramStr |-> Empty],
      [endpoint |-> Str_get_currencies, paramStr |-> Empty] }

\* post(endpoint, body, "/get_expense") and post(endpoint, body)
WritePostRequests ==
    { [endpoint |-> Str_create_expense, prefix |-> Str_get_expense],
      [endpoint |-> Str_create_expense, prefix |-> Empty] }

WriteResponses == { JsonResponse(200, "d1"), JsonResponse(500, "error") }

NextWrites ==
    \/ \E c \in WriteCalls, q \in WriteGetRequests : StartGet(c, q.endpoint, q.paramStr)
    \/ \E c \in WriteCalls, tok \in Tokens : GetToken(c, tok)
    \/ \E c \in WriteCalls, q \in WritePostRequests : StartPost(c, q.endpoint, q.prefix)
    \/ \E c \in WriteCalls, tok \in Tokens : ResolveToken(c, tok)
    \/ \E c \in WriteCalls, r \in WriteResponses : Exchange(c, r)
    \/ \E c \in WriteCalls : Wake(c)

SpecWrites == Init /\ [][NextWrites]_vars

----------------------------------------------------------------------------
(* The users repository: getCurrentUser, getUser(42) and updateUser(42, body) *)

\* getCurrentUser() and getUser(42)
UserGetRequests ==
    { [endpoint |-> Str_get_current_user, paramStr |-> Empty],
      [endpoint |-> Str_get_user_42, paramStr |-> Empty] }

NextUsers ==
    \/ \E c \in Calls, q \in UserGetRequests : StartGet(c, q.endpoint, q.paramStr)
    \/ \E c \in Calls, tok \in Tokens : GetToken(c, tok)
    \/ \E c \in Calls : updateUser(c)
    \/ \E c \in Calls, tok \in Tokens : ResolveToken(c, tok)
    \/ \E c \in Calls, r \in WriteResponses : Exchange(c, r)
    \/ \E c \in Calls : Wake(c)

SpecUsers == Init /\ [][NextUsers]_vars

----------------------------------------------------------------------------
(* The pipeline: one call, every outcome of the token provider and the transport *)

PipelineCalls == {1}

PipelineTokens == {"tokA", "tokB"}

PipelineResponses ==
    { JsonResponse(200, "d1"), JsonResponse(200, "d2"), JsonResponse(200, "malformed"),
      NoContentResponse }
    \cup { JsonResponse(s, "error") : s \in ErrorStatuses }

InitPipeline ==
    /\ config \in Configs(MaxRetriesDeep)
    /\ now = 0
    /\ cache = EmptyMap
    /\ inflight = EmptyMap
    /\ calls = [c \in Calls |-> IdleCall]
    /\ sweepTimer = config.enabled
    /\ lastOp = NoOp
    /\ written = EmptyMap
    /\ probe = NoProbe

NextPipeline ==
    \/ \E c \in PipelineCalls, q \in GetRequests : StartGet(c, q.endpoint, q.paramStr)
    \/ \E c \in PipelineCalls, tok \in PipelineTokens \cup {""} : GetToken(c, tok)
    \/ \E c \in PipelineCalls : GetTokenThrows(c)
    \/ \E c \in PipelineCalls, q \in PostRequests : StartPost(c, q.endpoint, q.prefix)
    \/ \E c \in PipelineCalls, tok \in PipelineTokens \cup {""} : ResolveToken(c, tok)
    \/ \E c \in PipelineCalls : ResolveTokenThrows(c)
    \/ \E c \in PipelineCalls, r \in PipelineResponses : Exchange(c, r)
    \/ \E c \in PipelineCalls : FetchRejects(c)
    \/ \E c \in PipelineCalls : Wake(c)

SpecPipeline == InitPipeline /\ [][NextPipeline]_vars

----------------------------------------------------------------------------
(* Claims about the client: cache and deduplication *)

\* C1: at most one factory invocation (one attempt sequence) is pending for
\* any cache key, after any interleaving of get, post, clearCache and dedup.
C1_OnePendingFactoryPerKey ==
    \A c \in Calls : Cardinality(PendingFactories(calls[c].key)) <= 1

\* C2: a call that reaches dedup while a factory is pending for its key does
\* not invoke the factory again but shares that factory's promise, and settles
\* with the same outcome as it.
C2_ConcurrentCallsShareOneFactory ==
    \A d \in Calls : \A c \in calls[d].pendingAtDedup :
        /\ calls[d].promise = c
        /\ (calls[c].pc = "done" /\ calls[d].pc = "done") => calls[d].result = calls[c].result

\* C3: the in-flight registry never holds a promise that has settled, resolved
\* or rejected, cached or not; so a call that reaches dedup either joins a
\* factory that is still pending or invokes the factory itself, and never
\* reuses a settled result.
C3_SettledPromiseLeavesRegistry ==
    /\ \A k \in DOMAIN inflight : calls[inflight[k]].pc \in {"resolve", "send", "sleep"}
    /\ \A d \in Calls :
         /\ ~calls[d].joinedSettled
         /\ calls[d].source = "joined" => calls[d].promise \in calls[d].pendingAtDedup

\* C3 witness: the factory of c settled with a rejection (nothing was cached)
\* and a later call for the same key has invoked the factory again and owns
\* the registry entry.
C3_Witness ==
    \E c, d \in Calls :
        /\ c # d
        /\ calls[c].pc = "done" /\ calls[c].source = "network"
        /\ calls[c].result.state = "rejected"
        /\ calls[d].key = calls[c].key
        /\ calls[d].pc = "send" /\ calls[d].promise = d
        /\ calls[d].pendingAtDedup = {}
        /\ calls[c].key \in DOMAIN inflight /\ inflight[calls[c].key] = d

\* C9: a GET that finds an unexpired entry under its cache key returns from
\* the cache, without network exchange, attempt loop or dedup registry.
C9_UnexpiredEntryIsServed ==
    \A c \in Calls :
        calls[c].hadEntry =>
            /\ calls[c].pc = "done"
            /\ calls[c].source = "cache"
            /\ calls[c].exchanges = 0

\* C10: a getExpenses call begun after an expense mutation succeeded is not
\* answered from a cache entry that was stored before that mutation.
C10_FreshListingAfterMutation ==
    \A c \in Calls :
        (calls[c].endpoint = Str_get_expenses /\ calls[c].source = "cache")
            => calls[c].servedOld \cap calls[c].mutatedBefore = {}

----------------------------------------------------------------------------
(* Claims about the pipeline: retry and errors *)

\* the call ran its own attempt loop, which has ended
LoopEnded(c) == calls[c].pc = "done" /\ calls[c].source = "network"

\* C4: when every attempt 0..maxRetries failed with a retryable error, the
\* error raised is the one constructed in the last attempt, classified from
\* what that attempt got.
C4_LastErrorSurfaces ==
    \A c \in Calls :
        (/\ LoopEnded(c)
         /\ calls[c].result.state = "rejected"
         /\ retryable(calls[c].result.error)
         /\ calls[c].sleeps = config.maxRetries)
        => LET e == calls[c].result.error
               r == calls[c].response
           IN  /\ e.attempt = config.maxRetries
               /\ IF r # NoResponse /\ ~ResponseOk(r)
                  THEN e.status = r.status
                  ELSE e.name = "NetworkError"

\* C4 witness: two retries, the last attempt failed with another status than
\* the one before it, and the raised error carries the last status.
C4_Witness ==
    \E c \in Calls :
        /\ LoopEnded(c)
        /\ config.maxRetries = 2
        /\ calls[c].sleeps = 2
        /\ calls[c].lastError.status = 500
        /\ calls[c].result.state = "rejected"
        /\ calls[c].result.error.status = 503

\* C5 as stated: a call whose attempts all failed with retryable errors has
\* performed exactly maxRetries+1 network exchanges and maxRetries backoff
\* waits when it raises.
C5_ExhaustionCounts_AsStated ==
    \A c \in Calls :
        (/\ LoopEnded(c)
         /\ calls[c].result.state = "rejected"
         /\ retryable(calls[c].result.error))
        => /\ calls[c].exchanges = config.maxRetries + 1
           /\ calls[c].sleeps = config.maxRetries

\* C5 amended: such a call has made exactly maxRetries+1 attempts and
\* maxRetries backoff waits; each attempt performed one network exchange
\* unless the token provider threw in it, so the exchanges are exactly
\* maxRetries+1 when the provider never threw.  With maxRetries = 0 that is one
\* attempt and no wait; with maxRetries = 1 and a last response of 500 the
\* raised error has status 500.
C5_ExhaustionCounts ==
    \A c \in Calls :
        (/\ LoopEnded(c)
         /\ calls[c].result.state = "rejected"
         /\ retryable(calls[c].result.error))
        => /\ calls[c].attempt = config.maxRetries
           /\ calls[c].sleeps = config.maxRetries
           /\ calls[c].exchanges + calls[c].providerThrows = config.maxRetries + 1
           /\ (config.maxRetries = 0) => calls[c].sleeps = 0 /\ calls[c].exchanges <= 1
           /\ (config.maxRetries = 1 /\ calls[c].response.status = 500)
                  => calls[c].result.error.status = 500

\* C5 witness: maxRetries = 1, the backend answered 500 twice, and the call
\* raised status 500 after 2 exchanges and 1 wait.
C5_Witness ==
    \E c \in Calls :
        /\ LoopEnded(c)
        /\ config.maxRetries = 1
        /\ calls[c].lastError.status = 500
        /\ calls[c].response.status = 500
        /\ calls[c].result.state = "rejected"
        /\ calls[c].result.error.status = 500
        /\ calls[c].exchanges = 2
        /\ calls[c].sleeps = 1

\* C6: a call whose last response carried an error status outside the
\* retryable set has ended, for every maxRetries: it raised the error of that
\* response in the attempt that received it, and exchanges no more.
C6_NonRetryableSurfacesAtOnce ==
    \A c \in Calls :
        LET r == calls[c].response
        IN  (r # NoResponse /\ ~ResponseOk(r) /\ r.status \notin RetryableStatuses)
            => /\ calls[c].pc = "done"
               /\ calls[c].result.state = "rejected"
               /\ calls[c].result.error.status = r.status
               /\ calls[c].result.error.attempt = calls[c].attempt

\* C6 witness: with maxRetries = 3, a 404 in the second attempt ended the call
\* after 2 exchanges.
C6_Witness ==
    \E c \in Calls :
        /\ config.maxRetries = 3
        /\ calls[c].pc = "done"
        /\ calls[c].attempt = 1
        /\ calls[c].exchanges = 2
        /\ calls[c].response.status = 404
        /\ calls[c].result.error.name = "NotFoundError"

\* the value the code returns for the decodable success responses of the model
ExpectedValue(r) == IF r.status = 204 THEN "undefined" ELSE r.body

TypedErrors ==
    {"AuthenticationError", "AuthorizationError", "NotFoundError", "ValidationError",
     "ConflictError", "RateLimitError", "SplitwiseApiError", "NetworkError"}

\* C8: every call that has ended returned a value or raised one error of the
\* closed set of typed errors.
C8_ValueOrTypedError ==
    \A c \in Calls :
        calls[c].pc = "done" =>
            \/ calls[c].result.state = "fulfilled"
            \/ /\ calls[c].result.state = "rejected"
               /\ calls[c].result.error.name \in TypedErrors

----------------------------------------------------------------------------
(* Claims about RequestCache *)

\* C11: invalidate(P) removes exactly the entries stored for an endpoint that
\* equals P or starts with P + "/", with or without query parameters, and
\* leaves every other entry as it was: /get_groups and unrelated endpoints
\* survive invalidate("/get_group").
C11_InvalidateRemovesExactlyPrefix ==
    [][\A p \in CachePrefixes :
          Invalidate(p) =>
              /\ DOMAIN cache' = {k \in DOMAIN cache : ~Under(cache[k].endpoint, p)}
              /\ \A k \in DOMAIN cache' : cache'[k] = cache[k]]_vars

\* C11 witness: invalidate("/get_group") has just removed the entries of
\* /get_group and of /get_group/123 with and without parameters, while those
\* of /get_groups and /get_currencies are still stored.
C11_Witness ==
    /\ lastOp.op = "invalidate"
    /\ lastOp.prefix = Str_get_group
    /\ lastOp.removed =
         { buildKey(Str_get_group, Empty, <<"f", "p">>),
           buildKey(Str_get_group_123, Empty, <<"f", "p">>),
           buildKey(Str_get_group_123, Str_limit_1, <<"f", "p">>) }
    /\ DOMAIN cache =
         { buildKey(Str_get_groups, Empty, <<"f", "p">>),
           buildKey(Str_get_currencies, Empty, <<"f", "p">>) }

\* the stage of the entry under key k in entry map c at time t
Stage(c, k, t) ==
    IF k \notin DOMAIN c THEN "absent"
    ELSE IF t > c[k].expiresAt THEN "expired" ELSE "unexpired"

\* the moves of an entry that no set has replaced
StageMoves ==
    { <<"absent", "absent">>, <<"unexpired", "unexpired">>, <<"unexpired", "expired">>,
      <<"unexpired", "absent">>, <<"expired", "expired">>, <<"expired", "absent">> }

\* C15: get(k) never returns the value of an entry whose expiry time has
\* passed: such a read is a miss and deletes the entry.  An entry that no set
\* replaces only moves forward through unexpired, expired, absent: it is never
\* unexpired again after it expired and never comes back once it is absent.
C15_ExpiredEntryIsNeverServed ==
    /\ [](\A k \in DOMAIN written :
            (lastOp.op = "get" /\ lastOp.key = k /\ now > written[k].at + written[k].ttl)
                => /\ lastOp.returned = "undefined"
                   /\ k \notin DOMAIN cache)
    /\ [][\A k \in TtlKeys :
             /\ (Get(k) /\ Stage(cache, k, now) = "expired")
                    => /\ lastOp'.returned = "undefined"
                       /\ Stage(cache', k, now') = "absent"
             /\ \/ \E q \in TtlRequests, fp \in CacheFingerprints, v \in CacheValues :
                       Set(q.endpoint, q.paramStr, fp, v) /\ lastOp'.key = k
                \/ <<Stage(cache, k, now), Stage(cache', k, now')>> \in StageMoves]_vars

\* C15 witness: an entry stored with a positive TTL has expired, and the
\* get that has just read it returned a miss and deleted it.
C15_Witness ==
    \E k \in DOMAIN written :
        /\ written[k].ttl > 0
        /\ now > written[k].at + written[k].ttl
        /\ lastOp.op = "get" /\ lastOp.key = k
        /\ lastOp.removed = {k}
        /\ lastOp.returned = "undefined"

\* C16: with a TTL of 0 or a negative TTL, a get(k) at the instant of the
\* set(k, v, endpoint) is a miss.
C16_NonPositiveTtlIsImmediateMiss ==
    \A k \in DOMAIN written :
        (/\ lastOp.op = "get" /\ lastOp.key = k
         /\ written[k].ttl <= 0
         /\ written[k].at = now)
        => lastOp.returned = "undefined"

\* C17: on an enabled cache, a get(k) before the expiry time of the last
\* set(k, v, endpoint) with a positive TTL, with no clear, dispose or matching
\* invalidate since that set, returns v.
C17_SetThenGetReturnsValue ==
    \A k \in DOMAIN written :
        (/\ config.enabled
         /\ lastOp.op = "get" /\ lastOp.key = k
         /\ written[k].ttl > 0
         /\ now < written[k].at + written[k].ttl)
        => lastOp.returned = written[k].value

\* C17 witness: a value set at time 0 with TTL 2 has just been read at time 1.
C17_Witness ==
    \E k \in DOMAIN written :
        /\ config.enabled
        /\ written[k].ttl = 2 /\ written[k].at = 0 /\ now = 1
        /\ written[k].value = "v2"
        /\ lastOp.op = "get" /\ lastOp.key = k
        /\ lastOp.returned = "v2"

\* C18: while the cache is disabled, set stores nothing and every get misses:
\* the entry map is empty after any sequence of operations, and no sweep
\* timer runs.
C18_DisabledCacheStaysEmpty ==
    ~config.enabled =>
        /\ cache = EmptyMap
        /\ ~sweepTimer
        /\ lastOp.op = "get" => lastOp.returned = "undefined"

\* C18 witness: set has just been called on a disabled cache and nothing is stored.
C18_Witness ==
    /\ ~config.enabled
    /\ lastOp.op = "set"
    /\ lastOp.key \in TtlKeys
    /\ cache = EmptyMap
    /\ ~sweepTimer

\* the TTL of the longest override prefix the endpoint matches, else the default
LongestMatchTtl(cfg, endpoint) ==
    LET ov == cfg.ttlOverrides
        hits == {i \in 1..Len(ov) : StartsWith(endpoint, ov[i].prefix)}
    IN  IF hits = {} THEN cfg.defaultTtlMs
        ELSE ov[CHOOSE i \in hits : \A j \in hits : Len(ov[i].prefix) >= Len(ov[j].prefix)].ttl

\* C20: the entry a set has just stored expires after the TTL of the longest
\* configured override prefix that its endpoint matches, or after defaultTtlMs
\* when no override prefix matches, whatever the configured overrides are.
C20_TtlOfLongestMatchingPrefix ==
    (config.enabled /\ lastOp.op = "set")
        => cache[lastOp.key].expiresAt =
               now + LongestMatchTtl(config, cache[lastOp.key].endpoint)

\* C21: for every endpoint and params, two different fingerprints give two
\* different keys, and a get under one fingerprint returns a miss or what was
\* stored under that fingerprint, never what was stored for the same endpoint
\* and params under the other one.
C21_KeysAreScopedByToken ==
    \A q \in KeyRequests : \A fp \in KeyFingerprints :
        /\ \A other \in KeyFingerprints \ {fp} :
               buildKey(q.endpoint, q.paramStr, fp) # buildKey(q.endpoint, q.paramStr, other)
        /\ (lastOp.op = "get" /\ lastOp.key = buildKey(q.endpoint, q.paramStr, fp))
               => lastOp.returned \in {"undefined", UserData(fp)}

\* C21 witness: the same request is stored under both fingerprints, and the
\* get under the second one has just returned the second user's value.
C21_Witness ==
    LET keyA == buildKey(Str_get_groups, Empty, tokenFingerprint("tokA"))
        keyB == buildKey(Str_get_groups, Empty, tokenFingerprint("tokB"))
    IN  /\ keyA \in DOMAIN cache /\ cache[keyA].value = "alice"
        /\ keyB \in DOMAIN cache /\ cache[keyB].value = "bob"
        /\ lastOp.op = "get" /\ lastOp.key = keyB
        /\ lastOp.returned = "bob"

\* C23: after clear() the entry map and the in-flight table are empty; after
\* dispose() they are empty too and the sweep timer is stopped, it stays
\* stopped and a sweep runs only while it is set, so none runs after a
\* dispose; a dispose() that follows a dispose() changes neither map nor the
\* timer, and dispose() can always be called.
C23_ClearAndDisposeDrain ==
    /\ [](lastOp.op \in {"clear", "dispose"} => cache = EmptyMap /\ inflight = EmptyMap)
    /\ [](lastOp.op = "dispose" => ~sweepTimer)
    /\ [](lastOp.op = "sweep" => sweepTimer)
    /\ [](ENABLED Dispose)
    /\ [][/\ ~sweepTimer => ~sweepTimer'
          /\ (lastOp.op = "dispose" /\ lastOp'.op = "dispose")
               => cache' = cache /\ inflight' = inflight /\ sweepTimer' = sweepTimer]_vars

\* C23 witness: a cache whose timer an earlier dispose() stopped got an entry
\* and a pending promise again, and a further dispose() has just removed both.
C23_Witness ==
    /\ config.enabled
    /\ lastOp.op = "dispose"
    /\ ~lastOp.timerWas
    /\ lastOp.removed # {}
    /\ lastOp.inflightRemoved # {}
    /\ cache = EmptyMap /\ inflight = EmptyMap /\ ~sweepTimer

\* C26: a get or post whose token source yields an empty value is over at
\* once with an AuthenticationError: the attempt that got the empty value
\* performs no exchange and is followed by no backoff wait and no further
\* attempt, whatever maxRetries is.
C26_EmptyTokenFailsWithoutExchange ==
    \A c \in Calls :
        calls[c].emptyAt # -1 =>
            /\ calls[c].pc = "done"
            /\ calls[c].result.state = "rejected"
            /\ calls[c].result.error.name = "AuthenticationError"
            /\ calls[c].attempt = calls[c].emptyAt
            /\ calls[c].exchanges + calls[c].providerThrows = calls[c].emptyAt
            /\ calls[c].sleeps = calls[c].emptyAt

\* C26 witness: with retries allowed, a post got an empty token in its first
\* attempt and is over without an exchange.
C26_Witness ==
    \E c \in Calls :
        /\ config.maxRetries >= 1
        /\ calls[c].method = "POST"
        /\ calls[c].emptyAt = 0
        /\ calls[c].pc = "done"
        /\ calls[c].exchanges = 0

\* C27: every attempt of a call, retries included, resolves the token source
\* once more, and the request of an attempt carries the Authorization header
\* "Bearer " followed by the value the source yielded in that attempt, not a
\* value of an earlier attempt or of the resolution that preceded the call's
\* attempts.
C27_TokenResolvedEveryAttempt ==
    \A c \in Calls :
        /\ calls[c].pc = "resolve" => calls[c].resolutions = calls[c].attempt
        /\ calls[c].pc \in {"send", "sleep"} => calls[c].resolutions = calls[c].attempt + 1
        /\ calls[c].pc = "send" =>
               calls[c].authorization = <<"Bearer ", calls[c].provided>>

\* C27 witness: a get whose key was built for one token is sending its
\* second attempt with the other token, which the source yielded at the retry.
C27_Witness ==
    \E c \in Calls :
        /\ calls[c].pc = "send"
        /\ calls[c].attempt = 1
        /\ calls[c].resolutions = 2
        /\ calls[c].key = buildKey(calls[c].endpoint, calls[c].paramStr, tokenFingerprint("tokA"))
        /\ calls[c].provided = "tokB"
        /\ calls[c].authorization = <<"Bearer ", "tokB">>

\* C28: the log events of one call are start(0), outcome(0), start(1),
\* outcome(1), ...: the events at odd positions are "request started", each
\* followed by one "request succeeded" or "request failed" of the same attempt
\* before the next start, all with the requestId of the call and with the
\* attempt index as retryCount; an attempt whose request is out has logged its
\* start, an attempt that ended in a backoff wait has logged start and outcome.
C28_LogIsStartThenOutcomePerAttempt ==
    \A c \in Calls :
        LET log == calls[c].log
        IN  /\ \A i \in 1..Len(log) :
                   /\ log[i].requestId = randomUUID(c)
                   /\ log[i].retryCount = (i - 1) \div 2
                   /\ IF i % 2 = 1
                      THEN log[i].message = "request started"
                      ELSE log[i].message \in {"request succeeded", "request failed"}
            /\ calls[c].pc = "send" => Len(log) = 2 * calls[c].attempt + 1
            /\ calls[c].pc = "sleep" => Len(log) = 2 * (calls[c].attempt + 1)

\* C29: shouldRetry returns true exactly when the attempt index is below
\* maxRetries and the error is retryable; it returns false at every attempt
\* index from maxRetries on, and false for a non-retryable error at every
\* attempt index.
C29_ShouldRetryIffBelowLimitAndRetryable ==
    probe.fn = "shouldRetry" =>
        /\ probe.returned = (probe.attempt < probe.maxRetries /\ retryable(probe.error))
        /\ probe.attempt >= probe.maxRetries => ~probe.returned
        /\ ~retryable(probe.error) => ~probe.returned

\* C29 witness: shouldRetry has returned true for a 503 at the last attempt
\* index below maxRetries.
C29_Witness ==
    /\ probe.fn = "shouldRetry"
    /\ probe.error.status = 503
    /\ probe.maxRetries = 3
    /\ probe.attempt = 2
    /\ probe.returned

\* C30: for a rate-limit error with a hint of h seconds, computeDelay returns
\* min(h * 1000, maxDelayMs) in each of two calls, whatever the attempt index
\* and the random number of either call.
C30_HintedDelayIsExact ==
    (probe.fn = "computeDelay" /\ RetryAfterOf(probe.error).type = "number") =>
        LET expected == Min(RetryAfterOf(probe.error).seconds * 1000, probe.retry.maxDelayMs)
        IN  /\ probe.firstDelay = expected
            /\ probe.secondDelay = expected

\* C30 witness: two calls with different attempt indices and different random
\* numbers for a hint above the cap have both returned the cap.
C30_Witness ==
    /\ probe.fn = "computeDelay"
    /\ RetryAfterOf(probe.error) = RetryAfterSeconds(31)
    /\ probe.retry = DEFAULT_RETRY_CONFIG
    /\ probe.first.attempt # probe.second.attempt
    /\ probe.first.rnd # probe.second.rnd
    /\ probe.firstDelay = 30000
    /\ probe.secondDelay = 30000

ClassOf(status) ==
    CASE status = 401 -> "AuthenticationError"
      [] status = 403 -> "AuthorizationError"
      [] status = 404 -> "NotFoundError"
      [] status = 400 -> "ValidationError"
      [] status = 422 -> "ValidationError"
      [] status = 409 -> "ConflictError"
      [] status = 429 -> "RateLimitError"
      [] OTHER -> "SplitwiseApiError"

\* C32: parseHttpError returns for every status an error of the class of
\* that status (401 Authentication, 403 Authorization, 404 NotFound, 400 and
\* 422 Validation, 409 Conflict, 429 RateLimit, every other one the generic
\* API error), which carries the status, the endpoint, the correlation id
\* and the body it was given.
C32_ParseHttpErrorClassifiesByStatus ==
    probe.fn = "parseHttpError" =>
        /\ probe.returned.name = ClassOf(probe.status)
        /\ probe.returned.status = probe.status
        /\ probe.returned.endpoint = probe.endpoint
        /\ probe.returned.requestId = probe.requestId
        /\ probe.returned.details = probe.body

\* C32 witness: parseHttpError has returned a ValidationError with status 422
\* for a body and a correlation id.
C32_Witness ==
    /\ probe.fn = "parseHttpError"
    /\ probe.status = 422
    /\ probe.body = "error-body"
    /\ probe.returned.name = "ValidationError"
    /\ probe.returned.status = 422
    /\ probe.returned.requestId = probe.requestId

\* C34: parseRetryAfter returns the number of a header of digits; for an
\* HTTP-date in the future the whole seconds that cover the time left; 0 for
\* an HTTP-date that is not in the future; and no hint for a missing, empty
\* or unparseable header, and then the delay of the retry is the jittered
\* exponential backoff.
C34_RetryAfterHeaderParsed ==
    probe.fn = "parseRetryAfter" =>
        LET header == probe.header
            left == header.n - probe.at
        IN  /\ header.kind = "digits" => probe.returned = RetryAfterSeconds(header.n)
            /\ (header.kind = "date" /\ left > 0) =>
                   /\ probe.returned.type = "number"
                   /\ probe.returned.seconds * 1000 >= left
                   /\ (probe.returned.seconds - 1) * 1000 < left
            /\ (header.kind = "date" /\ left <= 0) => probe.returned = RetryAfterSeconds(0)
            /\ header.kind \in {"missing", "empty", "other"} =>
                   /\ probe.returned = NoRetryAfter
                   /\ probe.delay =
                        RoundedShare(probe.call.rnd, RandomSteps,
                                     Min(probe.retry.baseDelayMs * 2^probe.call.attempt,
                                         probe.retry.maxDelayMs))

\* C34 witness: an HTTP-date half a second ahead has given a hint of 1 second.
C34_Witness ==
    /\ probe.fn = "parseRetryAfter"
    /\ probe.header = DateHeader(2000)
    /\ probe.at = 1500
    /\ probe.returned = RetryAfterSeconds(1)
    /\ probe.delay = 1000

\* the errors the specification calls transient
Transient(error) ==
    \/ error.name \in {"NetworkError", "RateLimitError"}
    \/ /\ error.name = "SplitwiseApiError"
       /\ error.status \in {408, 429, 500, 502, 503, 504}

C35_OvertakenGetIsNotCached ==
    [][\A g \in Calls :
          (/\ calls[g].pc = "send"
           /\ \E p \in calls[g].overtakenBy : g < p
           /\ calls'[g].pc = "done"
           /\ calls'[g].result.state = "fulfilled")
          => calls[g].key \notin DOMAIN cache']_vars

\* C36: the fingerprint in the key under which a GET stored its result is
\* the fingerprint of the token sent in the Authorization header of the
\* exchange that produced the result, also when the provider yields another
\* token on each invocation.
C36_KeyFingerprintIsOfSentToken ==
    \A c \in Calls :
        (/\ calls[c].method = "GET" /\ calls[c].pc = "done"
         /\ calls[c].source = "network"
         /\ calls[c].result.state = "fulfilled"
         /\ calls[c].key \in DOMAIN cache)
        => calls[c].key = buildKey(calls[c].endpoint, calls[c].paramStr,
                                   tokenFingerprint(calls[c].authorization[2]))

\* C37: once an attempt of a call received a 2xx response, the call makes no
\* further exchange and logs no 'request failed' event: in every step of a
\* call whose log holds 'request succeeded', the number of exchanges stays
\* and no step adds a 'request failed' event after a 'request succeeded'
\* event, the step that logs 'request succeeded' included.
C37_NothingFollowsSuccessResponse ==
    [][\A c \in Calls :
          LET before == calls[c].log
              after == calls'[c].log
              ok == {i \in 1..Len(after) : after[i].message = "request succeeded"}
          IN  /\ \A i \in ok : \A j \in (i + 1)..Len(after) :
                      j > Len(before) => after[j].message # "request failed"
              /\ (\E i \in 1..Len(before) : before[i].message = "request succeeded")
                     => calls'[c].exchanges = calls[c].exchanges]_vars

\* C38: a 429 or a 503 response that carries a Retry-After header of h
\* seconds and is retried makes the pipeline wait min(h * 1000, maxDelayMs)
\* before the next attempt.
C38_RetryAfterHonouredFor429And503 ==
    (/\ probe.fn = "failedResponse"
     /\ probe.status \in {429, 503}
     /\ probe.header.kind = "digits"
     /\ probe.retried)
    => probe.delay = Min(probe.header.n * 1000, probe.retry.maxDelayMs)

\* C39: when updateUser succeeds, the cache afterwards holds no entry whose
\* endpoint is /get_user or lies under it (/get_user/42) and none for
\* /get_current_user, so that the next getUser or getCurrentUser is not
\* answered from the cache.
C39_UpdateUserInvalidatesUserEntries ==
    [][\A p \in Calls :
          (/\ calls[p].endpoint = Str_update_user_42
           /\ calls[p].pc # "done"
           /\ calls'[p].pc = "done"
           /\ calls'[p].result.state = "fulfilled")
          => \A key \in DOMAIN cache' :
                 /\ ~Under(EndpointPart(key), Str_get_user)
                 /\ EndpointPart(key) # Str_get_current_user]_vars

\* C24: a call of Splitwise.dispose() returns without an error, whether it
\* is the first or a later one, and leaves the sweep timer of the cache of its
\* HttpClient stopped and the entry map and the in-flight table empty.
C24_SplitwiseDisposeDrains ==
    [][SplitwiseDispose =>
         /\ lastOp'.threw = "none"
         /\ ~sweepTimer'
         /\ cache' = EmptyMap
         /\ inflight' = EmptyMap]_vars

\* what get and set do with a key, seen by the caller: the value get returns,
\* and the value and expiry of the entry set leaves
Foreground(c, key) ==
    [got |-> CacheGetValue(config, c, key, now),
     stored |-> LET after == CacheSet(config, c, key, "v2", Str_get_groups, now)
                IN  IF key \in DOMAIN after
                    THEN <<after[key].value, after[key].expiresAt>>
                    ELSE <<>>]

\* C25: a sweep removes exactly the entries whose expiry time has passed; it
\* leaves the other entries and the in-flight table as they were, and a get
\* or a set of any key gives after the sweep what it would have given before.
C25_SweepRemovesExpiredOnly ==
    [][lastOp'.op = "sweep" =>
         /\ DOMAIN cache' = {key \in DOMAIN cache : ~(now > cache[key].expiresAt)}
         /\ \A key \in DOMAIN cache' : cache'[key] = cache[key]
         /\ inflight' = inflight
         /\ \A key \in TtlKeys : Foreground(cache', key) = Foreground(cache, key)]_vars

\* C25 witness: a sweep has just removed an expired entry while an unexpired
\* entry and a pending promise were there, and both are still there.
C25_Witness ==
    /\ lastOp.op = "sweep"
    /\ lastOp.removed # {}
    /\ cache # EmptyMap
    /\ inflight # EmptyMap

\* the <<key, value>> pairs of a params object
PairsOf(params) == { params.props[i] : i \in 1..Len(params.props) }

KeysOf(params) == { pair[1] : pair \in PairsOf(params) }

\* two params objects with the same keys of which at least one has another value
DifferInValue(first, second) ==
    /\ first.t = "object" /\ second.t = "object"
    /\ KeysOf(first) = KeysOf(second)
    /\ PairsOf(first) # PairsOf(second)

\* two params objects with the same key/value pairs, in any insertion order
SamePairs(first, second) ==
    /\ first.t = "object" /\ second.t = "object"
    /\ PairsOf(first) = PairsOf(second)

\* C22: under the same endpoint and fingerprint, two params objects with the
\* same key/value pairs give the same key whatever their insertion order, and
\* two params objects that differ in a value give different keys.
C22_KeyFollowsPairsNotOrder ==
    probe.fn = "buildKey" =>
        /\ SamePairs(probe.first, probe.second) => probe.firstKey = probe.secondKey
        /\ DifferInValue(probe.first, probe.second) => probe.firstKey # probe.secondKey

----------------------------------------------------------------------------
(* Claims about cache writes of the client *)

\* what the program stores in an entry map, without the history fields
Visible(c) == [k \in DOMAIN c |-> [value |-> c[k].value, expiresAt |-> c[k].expiresAt]]

\* C12: the only cache change a post call causes: when it succeeds with an
\* invalidatePrefix, the entries stored for endpoints under that prefix are
\* removed and all others stay as they were; every other step of a post call
\* (a failure, a success without invalidatePrefix, a step before the end)
\* leaves the cache unchanged.
C12_PostOnlyInvalidates ==
    [][\A c \in Calls :
          (calls'[c].method = "POST" /\ calls'[c] # calls[c]) =>
              IF /\ calls'[c].pc = "done"
                 /\ calls'[c].result.state = "fulfilled"
                 /\ calls'[c].prefix # Empty
              THEN /\ DOMAIN cache' =
                        {k \in DOMAIN cache : ~Under(cache[k].endpoint, calls'[c].prefix)}
                   /\ \A k \in DOMAIN cache' : Visible(cache')[k] = Visible(cache)[k]
              ELSE Visible(cache') = Visible(cache)]_vars

\* C12 witness: getExpense(1) stored its result, then a createExpense with
\* invalidatePrefix "/get_expense" succeeded, and the entry is gone.
C12_Witness ==
    \E g, p \in Calls :
        /\ config.enabled
        /\ calls[g].method = "GET" /\ calls[g].endpoint = Str_get_expense_1
        /\ calls[g].pc = "done" /\ calls[g].source = "network"
        /\ calls[g].result.state = "fulfilled"
        /\ calls[p].method = "POST" /\ calls[p].prefix = Str_get_expense
        /\ calls[p].pc = "done" /\ calls[p].result.state = "fulfilled"
        /\ p \notin calls[g].mutatedBefore
        /\ calls[g].key \notin DOMAIN cache

\* call c ends in this step
Ends(c) == calls[c].pc # "done" /\ calls'[c].pc = "done"

----------------------------------------------------------------------------
(* Claims about clearCache and a disabled cache *)

\* the attempt loop of call c is running
InFlight(c) == calls[c].method = "GET" /\ calls[c].pc \in {"resolve", "send", "sleep"}

\* C13: clearCache() during a GET does not disturb it.  In every behaviour,
\* those with clearCache() at any point of a call included, the calls that
\* have entered dedup all complete (from some point on none is in flight or
\* waiting for a shared promise), and a caller that joined the promise of
\* call c, once c has completed, has completed with the outcome of c.
C13_ClearLeavesInFlightCalls ==
    /\ <>[](\A c \in Calls : ~InFlight(c) /\ calls[c].pc # "joined")
    /\ [](\A d \in Calls :
            (calls[d].source = "joined" /\ calls[calls[d].promise].pc = "done")
                => /\ calls[d].pc = "done"
                   /\ calls[d].result.state # "pending"
                   /\ calls[d].result = calls[calls[d].promise].result)

\* C13 witness: clearCache() has removed the registry entry of the key while
\* the request of c is sent and d, which joined c, is waiting.
C13_Witness ==
    \E c, d \in Calls :
        /\ calls[c].method = "GET" /\ calls[c].pc = "send"
        /\ calls[d].pc = "joined" /\ calls[d].promise = c
        /\ calls[d].key = calls[c].key
        /\ calls[c].key \notin DOMAIN inflight

\* C19: with cache.enabled = false every GET call performs its own HTTP
\* exchange: none is answered from the cache or from the in-flight request of
\* another call.
C19_DisabledCacheNeverShares ==
    ~config.enabled =>
        \A c \in Calls :
            /\ calls[c].source \notin {"cache", "joined"}
            /\ (calls[c].method = "GET" /\ calls[c].pc = "done") => calls[c].exchanges >= 1

====
